---- MODULE Spec2Model ----
(***************************************************************************)
(* Model of the single-spa sample: the root config (root-config.ts), the   *)
(* main application's registry form (App) and its per-entry loader         *)
(* (ChildAppRenderer, defined inside App).                                 *)
(*                                                                         *)
(* Array indices are 0-based as in the source; the entry at index i is     *)
(* applications[i + 1].  null is -1 for an index and 0 for an element.     *)
(***************************************************************************)
EXTENDS Integers, Sequences, FiniteSets, TLC

\* ------------------------------------------------------------------ bounds

\* Number of ChildAppRenderer instances React creates in one behaviour.
MaxInstances == 2

\* Longest applications list.
MaxApps == 3

Names == {"a", "b"}
Urls == {"u"}
\* What the user can type into the two inputs.
FormNames == Names \cup {"", " "}
FormUrls == Urls \cup {""}
\* The URL that serves pure-js/app.js.
PureUrl == "p"
\* Values Date.now() returns (wall clock: equal or different between loads).
Times == {0, 1}
\* Only the equality of two readings matters: the k-th load reads one of the earlier
\* values or the next one.
LoadTimes(k) == {t \in Times : t < k}

Lifecycle == {"bootstrap", "mount", "unmount"}
CriticalDeps == {"react", "react-dom", "single-spa"}
\* The pre-load whose rejection is only logged.
OptionalDeps == {"single-spa-react"}

\* ------------------------------------------------------------------ values

NullIndex == 0 - 1
NullElement == 0

EmptyForm == [name |-> "", url |-> ""]
\* An array hole (an index never assigned).
Hole == [name |-> "<hole>", url |-> "<hole>"]
\* The undefined a spread reads from a hole.
Undefined == [name |-> "<undefined>", url |-> "<undefined>"]

NoError == [prefix |-> "", msg |-> "null", args |-> <<>>, avail |-> <<>>]
FailedToLoad == "Failed to load application: "

NoProps == [name |-> <<>>, domElement |-> NullElement]
NoRef == [set |-> FALSE, module |-> "", containerId |-> <<>>, containerElement |-> NullElement]

NoInstance ==
  [pc |-> "unused", index |-> NullIndex, appName |-> "", appUrl |-> "",
   alive |-> FALSE, wrapper |-> NullElement, containerRef |-> NullElement,
   containerReady |-> FALSE, loading |-> TRUE, error |-> NoError,
   containerElement |-> NullElement, containerId |-> <<>>,
   appInstanceRef |-> NoRef, exports |-> {},
   importOk |-> FALSE, bootstrapOk |-> FALSE, mountOk |-> FALSE,
   nBootstrap |-> 0, nMount |-> 0, nUnmount |-> 0,
   mountProps |-> NoProps, unmountProps |-> NoProps,
   mounted |-> FALSE, tornInFlight |-> FALSE, tornMountOk |-> FALSE,
   unmountPc |-> "none"]

VARIABLES
  rootPc,          \* position of root-config.ts's top level
  registeredApps,  \* single-spa: names passed to registerApplication, in order
  startCalls,      \* single-spa: number of start() calls
  listeners,       \* window.addEventListener calls, in order
  appPc,           \* "none" | "mounted" (first effects ran) | "ready"
  queued,          \* the list setApplications was given by the load effect
  applications, formData, editingIndex,
  formRef,         \* index of the entry formData is the same object as, or -1
  localStorage,    \* the 'childApplications' item
  alerted,         \* the last handler call raised the alert
  lastOp,          \* the last handler called (see Op)
  editTarget,      \* index now held by the entry handleEdit loaded into the form,
                   \* or -1 (not editing, or that entry is gone)
  inst,            \* ChildAppRenderer instances, in order of creation
  nInst,           \* instances created so far
  tracked,         \* how many instances the behaviour follows: MaxInstances, or 0
                   \* for a behaviour that follows the registry form alone
  dom,             \* inner container elements, in order of creation
  appState,        \* pure-js/app.js: its module-level appState
  innerHTML,       \* the child nodes of each element a module renders into
  styles,          \* document.head holds the #pure-js-app-styles element
  lastCall         \* the last lifecycle call made on the pure-JS module directly

vars == <<rootPc, registeredApps, startCalls, listeners, appPc, queued, applications,
          formData, editingIndex, formRef, localStorage, alerted, lastOp, editTarget,
          inst, nInst, tracked, dom, appState, innerHTML, styles, lastCall>>

rootVars == <<rootPc, registeredApps, startCalls, listeners>>
uiVars == <<appPc, queued, applications, formData, editingIndex, formRef, localStorage,
           alerted, lastOp, editTarget>>
childVars == <<inst, nInst, tracked, dom, appState, innerHTML, styles, lastCall>>
pureVars == <<appState, innerHTML, styles, lastCall>>

\* A handler call: the handler, the index it was given, and editingIndex at the call.
Op(op, index) == [op |-> op, index |-> index, editing |-> editingIndex]

\* ------------------------------------------------------------------ helpers

\* A trim that leaves the string as it is.
TrimNothing(s) == s

\* s.trim(), on the strings the form can hold.
Trim(s) == IF s = " " THEN "" ELSE s

\* JSON.stringify of the list: each entry as a [name, url] pair, a hole as null.
Stringify(apps) ==
  [i \in 1..Len(apps) |-> IF apps[i] \in {Hole, Undefined} THEN <<"null">> ELSE <<apps[i].name, apps[i].url>>]

\* JSON.parse of such a text.
Parse(text) ==
  [i \in 1..Len(text) |->
     IF Len(text[i]) = 2 THEN [name |-> text[i][1], url |-> text[i][2]]
     ELSE [name |-> "<null>", url |-> "<null>"]]

\* updated[index] = value on a copy of the array (an index past the end leaves holes).
ArraySet(arr, index, value) ==
  [i \in 1..(IF index + 1 > Len(arr) THEN index + 1 ELSE Len(arr)) |->
     IF i = index + 1 THEN value ELSE IF i <= Len(arr) THEN arr[i] ELSE Hole]

\* [...arr]: a spread reads a hole as undefined.
Spread(arr) == [i \in 1..Len(arr) |-> IF arr[i] = Hole THEN Undefined ELSE arr[i]]

\* [...applications, { ...formData }] with the new entry put first.
AddEntryAtFront(arr, entry) == <<entry>> \o Spread(arr)

\* [...applications, { ...formData }]
AddEntry(arr, entry) == Append(Spread(arr), entry)

\* const updated = [...applications]; updated[editingIndex] = { ...formData }
UpdateEntry(arr, index, entry) == ArraySet(Spread(arr), index, entry)

\* The positions filter keeps: it skips holes and the position index.
Kept(arr, index) == {i \in 1..Len(arr) : arr[i] # Hole /\ i # index + 1}

RECURSIVE KeptFrom(_, _, _)
KeptFrom(arr, index, i) ==
  IF i > Len(arr) THEN <<>>
  ELSE (IF i \in Kept(arr, index) THEN <<arr[i]>> ELSE <<>>) \o KeptFrom(arr, index, i + 1)

\* applications.filter((_, i) => i !== index)
ArrayRemove(arr, index) == KeptFrom(arr, index, 1)

\* Where the entry at position j (0-based) is after that filter, or -1.
IndexAfterRemove(arr, index, j) ==
  IF j + 1 \in Kept(arr, index)
  THEN Cardinality({i \in Kept(arr, index) : i < j + 1})
  ELSE NullIndex

\* `child-app-${name...}-${index}`: the name registerChildApplications logs.
ChildConfigName(app, index) == <<"child-app", app.name, index>>

\* The name root-config.ts registers.
MainName == <<"main">>

\* eventTypes of setupSingleSpaEventHandlers, as listed.
EventTypes ==
  <<"single-spa:before-routing-event", "single-spa:routing-event",
    "single-spa:before-mount-routing-event", "single-spa:before-first-mount",
    "single-spa:first-mount", "single-spa:no-app-change", "single-spa:app-change",
    "single-spa:before-app-change", "single-spa:app-change",
    "single-spa:before-bootstrap", "single-spa:after-bootstrap",
    "single-spa:before-bootstrap-error", "single-spa:bootstrap-error",
    "single-spa:before-mount", "single-spa:after-mount",
    "single-spa:before-mount-error", "single-spa:mount-error",
    "single-spa:before-unmount", "single-spa:after-unmount",
    "single-spa:before-unmount-error", "single-spa:unmount-error",
    "single-spa:before-update", "single-spa:after-update",
    "single-spa:before-update-error", "single-spa:update-error">>

\* The listeners setupSingleSpaEventHandlers adds: a logging one per element of
\* eventTypes, then the empty capturing one.
InstalledListeners ==
  [i \in 1..Len(EventTypes) |-> [type |-> EventTypes[i], logs |-> TRUE, capture |-> FALSE]]
  \o <<[type |-> "single-spa:before-routing-event", logs |-> FALSE, capture |-> TRUE]>>

RECURSIVE ConfigNames(_, _)
ConfigNames(apps, i) ==
  IF i > Len(apps) THEN <<>>
  ELSE (IF apps[i] = Hole THEN <<>> ELSE <<ChildConfigName(apps[i], i - 1)>>)
       \o ConfigNames(apps, i + 1)

\* A registerChildApplications that registers what it logs.
registerChildApplicationsRegistering(reg, apps) == reg \o ConfigNames(apps, 1)

\* registerChildApplications: logs the configured names; registers nothing.
registerChildApplications(reg, apps) == reg

\* `child-${appName}-${index}`
LifecycleName(r) == <<"child", r.appName, r.index>>

Err(prefix, msg, args) == [prefix |-> prefix, msg |-> msg, args |-> args, avail |-> <<>>]

\* The exports in declaration order.
OrderedExports(s) ==
  (IF "bootstrap" \in s THEN <<"bootstrap">> ELSE <<>>)
  \o (IF "mount" \in s THEN <<"mount">> ELSE <<>>)
  \o (IF "unmount" \in s THEN <<"unmount">> ELSE <<>>)

\* missingExports, as the else branch pushes them.
MissingExports(exports) == OrderedExports(Lifecycle \ exports)

\* A check that forgets unmount.
HasLifecycleNoUnmount(exports) == "bootstrap" \in exports /\ "mount" \in exports

\* appModule.bootstrap && appModule.mount && appModule.unmount
HasLifecycle(exports) ==
  "bootstrap" \in exports /\ "mount" \in exports /\ "unmount" \in exports


\* ------------------------------------------------------------------ DOM

\* The wrapper <div> React creates for the k-th instance rendered at list position
\* index, as if React kept the element of the position.
ReusedWrapper(k, index) == 0 - (index + 1)

\* The wrapper <div> React creates for the k-th instance: ChildAppRenderer is a new
\* function on every render of App, so every render mounts new components with
\* new elements.
NewWrapper(k, index) == 0 - k

Matches(d, wrapper, id) == {e \in 1..Len(d) : d[e].parent = wrapper /\ d[e].id = id}

\* wrapperElement.querySelector(`#${containerId}`): 0 when there is none.
FindContainer(d, wrapper, id) ==
  IF Matches(d, wrapper, id) = {} THEN NullElement
  ELSE CHOOSE e \in Matches(d, wrapper, id) : \A f \in Matches(d, wrapper, id) : e <= f

\* document.createElement('div') with the id, appended to the wrapper by instance k.
AppendContainer(d, k, wrapper, id) ==
  Append(d, [id |-> id, creator |-> k, wrapper |-> wrapper, parent |-> wrapper,
             touched |-> {k}])

\* containerElement.parentElement.removeChild(containerElement), done by instance k.
RemoveContainer(d, k, e) ==
  IF e \in 1..Len(d) /\ d[e].parent # NullElement
  THEN [d EXCEPT ![e].parent = NullElement, ![e].touched = @ \cup {k}]
  ELSE d

\* The inner containers a wrapper holds.
InnerContainers(d, wrapper) == {e \in 1..Len(d) : d[e].parent = wrapper}

\* ------------------------------------------------------------------ pure-js/app.js

\* The elements a module can be handed.
Elements == 1..MaxInstances

\* appRoot, the <div class="pure-js-app"> createApp builds.
AppRoot == "pure-js-app"

InitialAppState == [mounted |-> FALSE, container |-> NullElement, eventListeners |-> <<>>]

NoCall ==
  [fn |-> "none", domElement |-> NullElement, ok |-> TRUE, msg |-> "", again |-> FALSE,
   wasMounted |-> FALSE,
   prev |-> [fn |-> "none", domElement |-> NullElement, wasMounted |-> FALSE]]

\* The module's state and the part of the document it acts on.
Page == [appState |-> appState, innerHTML |-> innerHTML, styles |-> styles]

SetPage(pm) ==
  /\ appState' = pm.appState
  /\ innerHTML' = pm.innerHTML
  /\ styles' = pm.styles

injectStyles(pm) == IF pm.styles THEN pm ELSE [pm EXCEPT !.styles = TRUE]

createApp(pm, container) ==
  IF pm.appState.mounted THEN pm
  ELSE LET p1 == [pm EXCEPT !.appState.container = container, !.appState.mounted = TRUE]
           p2 == injectStyles(p1)
           p3 == [p2 EXCEPT !.innerHTML[container] = <<>>]
       IN [p3 EXCEPT !.innerHTML[container] = Append(@, AppRoot)]

\* A destroyApp that leaves the content of the container.
destroyAppKeepingContent(pm, container) ==
  IF ~pm.appState.mounted THEN pm
  ELSE [pm EXCEPT !.appState.eventListeners = <<>>,
                  !.appState.mounted = FALSE, !.appState.container = NullElement]

\* A destroyApp that leaves appState.mounted and appState.container as they were.
destroyAppKeepingMounted(pm, container) ==
  IF ~pm.appState.mounted THEN pm
  ELSE [pm EXCEPT !.appState.eventListeners = <<>>, !.innerHTML[container] = <<>>]

destroyApp(pm, container) ==
  IF ~pm.appState.mounted THEN pm
  ELSE [pm EXCEPT !.appState.eventListeners = <<>>, !.innerHTML[container] = <<>>,
                  !.appState.mounted = FALSE, !.appState.container = NullElement]

\* The lifecycle functions give the page after the call and whether the promise
\* resolved (ok) or rejected, with the message of the error it rejected with.
bootstrap(pm, props) == [pm |-> pm, ok |-> TRUE, msg |-> ""]

\* A mount that does not look at props.domElement.
mountUnchecked(pm, props) ==
  [pm |-> createApp(pm, props.domElement), ok |-> TRUE, msg |-> ""]

mount(pm, props) ==
  IF props.domElement = NullElement
  THEN [pm |-> pm, ok |-> FALSE, msg |-> "No DOM element provided"]
  ELSE [pm |-> createApp(pm, props.domElement), ok |-> TRUE, msg |-> ""]

unmount(pm, props) ==
  IF props.domElement # NullElement
  THEN [pm |-> destroyApp(pm, props.domElement), ok |-> TRUE, msg |-> ""]
  ELSE [pm |-> pm, ok |-> TRUE, msg |-> ""]

\* ------------------------------------------------------------------ ChildAppRenderer
\* setLoading and setError are modelled by the value last set: the model keeps the
\* state of a component after React unmounted it.

\* A start of loadChildApp without the check of containerRef.current.
LoadStartUnguarded(k, r, d, now) ==
  LET r1 == [r EXCEPT !.loading = TRUE, !.error = NoError]
      id == <<"child-app-root", r.index, now>>
      found == FindContainer(d, r.containerRef, id)
      d2 == IF found = NullElement THEN AppendContainer(d, k, r.containerRef, id) ELSE d
      el == IF found = NullElement THEN Len(d2) ELSE found
  IN [r |-> [r1 EXCEPT !.containerId = id, !.containerElement = el, !.pc = "head"],
      dom |-> d2]

\* The synchronous start of loadChildApp, up to the await of the HEAD request.
\* now is Date.now().  Gives the instance and the DOM.
LoadStart(k, r, d, now) ==
  LET r1 == [r EXCEPT !.loading = TRUE, !.error = NoError]
      id == <<"child-app-root", r.index, now>>
      found == FindContainer(d, r.containerRef, id)
      d2 == IF found = NullElement THEN AppendContainer(d, k, r.containerRef, id) ELSE d
      el == IF found = NullElement THEN Len(d2) ELSE found
  IN IF r.containerRef = NullElement
     THEN [r |-> [r1 EXCEPT !.error = Err("", "Container element not available", <<>>),
                            !.loading = FALSE, !.pc = "done"],
           dom |-> d]
     ELSE [r |-> [r1 EXCEPT !.containerId = id, !.containerElement = el, !.pc = "head"],
           dom |-> d2]

\* React mounts an instance for the entry at index: render, the callback ref
\* (containerRef.current = element, setContainerReady(true)), the effect with
\* containerReady = false (returns), the render for containerReady and the effect
\* that calls loadChildApp.  One task: no event runs in between.
MountInstance(k, app, index, d, now) ==
  LET w == NewWrapper(k, index)
      r == [NoInstance EXCEPT !.index = index, !.appName = app.name, !.appUrl = app.url,
                              !.alive = TRUE, !.wrapper = w, !.containerRef = w,
                              !.containerReady = TRUE]
  IN LoadStart(k, r, d, now)

\* mountProps that hand the module the wrapper itself.
MountPropsIntoWrapper(r) == [name |-> LifecycleName(r), domElement |-> r.wrapper]

\* mountProps
MountProps(r) == [name |-> LifecycleName(r), domElement |-> r.containerElement]

\* A catch that sets the error and leaves loading as it is.
LoadFailedStillLoading(r, msg, args) ==
  [r EXCEPT !.error = Err(FailedToLoad, msg, args), !.pc = "done"]

\* The catch (importError) of loadChildApp.
LoadFailed(r, msg, args) ==
  [r EXCEPT !.error = Err(FailedToLoad, msg, args), !.loading = FALSE, !.pc = "done"]

\* After the HEAD request settled: a not-ok status throws inside the try whose catch
\* only warns, so every outcome goes on to pre-load the dependencies.
AfterHead(r, outcome) == [r EXCEPT !.pc = "preload"]

\* A pre-load in which the rejection of any of the four dependencies is fatal.
AfterPreloadStrict(r, first) ==
  IF first = "none" THEN [r EXCEPT !.pc = "import"]
  ELSE LoadFailed(r, "Required dependencies not available: ", <<first>>)

\* After Promise.all of the four pre-loads settled: first is the dependency that
\* rejected first, or "none".  Only a critical one rejects the Promise.all.
AfterPreload(r, first) ==
  IF first \in CriticalDeps
  THEN LoadFailed(r, "Required dependencies not available: ", <<first>>)
  ELSE [r EXCEPT !.pc = "import"]

\* After System.import(appUrl) resolved with a module of these exports.
AfterImport(r, exports) ==
  IF HasLifecycle(exports)
  THEN [r EXCEPT !.importOk = TRUE, !.exports = exports,
                 !.appInstanceRef = [set |-> TRUE, module |-> r.appUrl,
                                     containerId |-> r.containerId,
                                     containerElement |-> r.containerElement],
                 !.nBootstrap = @ + 1, !.pc = "bootstrap"]
  ELSE [LoadFailed([r EXCEPT !.importOk = TRUE, !.exports = exports],
                   "Application does not export required functions: ",
                   MissingExports(exports))
          EXCEPT !.error.avail = OrderedExports(exports)]

\* After System.import(appUrl) rejected.
AfterImportRejected(r) == LoadFailed(r, "<import error>", <<>>)

\* The load calls mount whatever bootstrap did.
AfterBootstrapUnchecked(r, ok) ==
  [r EXCEPT !.bootstrapOk = ok, !.nMount = @ + 1, !.mountProps = MountProps(r),
            !.pc = "mount"]

\* After appModule.bootstrap() settled: mount is called, or the load fails.
AfterBootstrap(r, ok) ==
  IF ok
  THEN [r EXCEPT !.bootstrapOk = TRUE, !.nMount = @ + 1, !.mountProps = MountProps(r),
                 !.pc = "mount"]
  ELSE LoadFailed(r, "Bootstrap failed: ", <<"<bootstrap error>">>)

\* A load that takes a rejected mount for a mounted fragment.
AfterMountSwallowing(r, ok) == [r EXCEPT !.mountOk = ok, !.mounted = TRUE, !.pc = "wait"]

\* A load that rolls a failed mount back by calling unmount itself.
AfterMountRollingBack(r, ok) ==
  IF ok THEN [r EXCEPT !.mountOk = TRUE, !.mounted = TRUE, !.pc = "wait"]
  ELSE [LoadFailed(r, "Mount failed: ", <<"<mount error>">>)
          EXCEPT !.nUnmount = @ + 1, !.unmountProps = MountProps(r)]

\* After appModule.mount(mountProps) settled: the 100 ms wait, or the load fails.
AfterMount(r, ok) ==
  IF ok THEN [r EXCEPT !.mountOk = TRUE, !.mounted = TRUE, !.pc = "wait"]
  ELSE LoadFailed(r, "Mount failed: ", <<"<mount error>">>)

\* A load that ends without setLoading(false).
AfterWaitStillLoading(r) == [r EXCEPT !.pc = "done"]

\* After the 100 ms timer: setLoading(false).
AfterWait(r) == [r EXCEPT !.loading = FALSE, !.pc = "done"]

\* A cleanup that unmounts but keeps the stored module.
CleanupKeepingRef(r) ==
  LET ref == r.appInstanceRef
      called == ref.set /\ "unmount" \in r.exports /\ ref.containerElement # NullElement
  IN [r EXCEPT !.alive = FALSE, !.containerRef = NullElement,
               !.tornInFlight = (r.pc # "done"),
               !.tornMountOk = r.mountOk,
               !.nUnmount = IF called THEN @ + 1 ELSE @,
               !.unmountProps = IF called
                                THEN [name |-> LifecycleName(r),
                                      domElement |-> ref.containerElement]
                                ELSE @,
               !.unmountPc = IF called THEN "pending" ELSE @,
               !.mounted = IF called THEN FALSE ELSE @]

\* React unmounts the component: the callback ref gets null and the effect's
\* cleanup runs (module.unmount when a module is stored, then the ref is cleared).
Cleanup(r) ==
  LET ref == r.appInstanceRef
      called == ref.set /\ "unmount" \in r.exports /\ ref.containerElement # NullElement
  IN [r EXCEPT !.alive = FALSE, !.containerRef = NullElement,
               !.tornInFlight = (r.pc # "done"),
               !.tornMountOk = r.mountOk,
               !.nUnmount = IF called THEN @ + 1 ELSE @,
               !.unmountProps = IF called
                                THEN [name |-> LifecycleName(r),
                                      domElement |-> ref.containerElement]
                                ELSE @,
               !.unmountPc = IF called THEN "pending" ELSE @,
               !.mounted = IF called THEN FALSE ELSE @,
               !.appInstanceRef = NoRef]

\* The instances after React unmounted every mounted one.
UnmountAll(insts) == [k \in DOMAIN insts |-> IF insts[k].alive THEN Cleanup(insts[k]) ELSE insts[k]]

\* React mounts one instance per entry from position i on (applications.map skips
\* holes); ts gives Date.now() of each load.
RECURSIVE MountFrom(_, _, _, _)
MountFrom(w, apps, i, ts) ==
  IF i > Len(apps) THEN w
  ELSE IF apps[i] = Hole THEN MountFrom(w, apps, i + 1, ts)
  ELSE LET m == MountInstance(w.n + 1, apps[i], i - 1, w.dom, ts[i])
       IN MountFrom([inst |-> [w.inst EXCEPT ![w.n + 1] = m.r], n |-> w.n + 1, dom |-> m.dom],
                    apps, i + 1, ts)

Entries(apps) == {i \in 1..Len(apps) : apps[i] # Hole}

\* The page after the cleanups of the instances from k on ran, in their order in the
\* tree: a cleanup that calls module.unmount runs the body of the pure-JS unmount
\* (it has no await) when the module is the pure-JS one.
RECURSIVE CleanupModules(_, _, _)
CleanupModules(pm, insts, k) ==
  IF k > Len(insts) THEN pm
  ELSE LET r == insts[k]
           called == r.alive /\ Cleanup(r).nUnmount > r.nUnmount
       IN CleanupModules(IF called /\ r.appUrl = PureUrl
                         THEN unmount(pm, Cleanup(r).unmountProps).pm
                         ELSE pm,
                         insts, k + 1)

\* A render of App with the list apps: every ChildAppRenderer of the previous render
\* is unmounted and one is mounted per entry.
RenderApp(apps) ==
  \/ /\ tracked = 0
     /\ UNCHANGED childVars
  \/ /\ tracked > 0
     /\ nInst + Cardinality(Entries(apps)) <= tracked
     /\ UNCHANGED tracked
     /\ \E ts \in [1..Len(apps) -> Times] :
          /\ \A i \in 1..Len(apps) : ts[i] \in LoadTimes(nInst + i)
          /\ LET w == MountFrom([inst |-> UnmountAll(inst), n |-> nInst, dom |-> dom],
                                apps, 1, ts)
             IN /\ inst' = w.inst
                /\ nInst' = w.n
                /\ dom' = w.dom
     /\ SetPage(CleanupModules(Page, inst, 1))
     /\ UNCHANGED lastCall

\* The effect on [applications]: save the list and call registerChildApplications.
SaveEffect(apps) ==
  /\ localStorage' = [present |-> TRUE, text |-> Stringify(apps)]
  /\ registeredApps' = registerChildApplications(registeredApps, apps)


\* ------------------------------------------------------------------ initial state

\* What the 'childApplications' item holds when the page loads.
SavedLists ==
  {<<>>, <<[name |-> "a", url |-> "u"]>>,
   <<[name |-> "a", url |-> "u"], [name |-> "b", url |-> "u"]>>}

InitialStorage ==
  {[present |-> FALSE, text |-> <<>>]}
  \cup {[present |-> TRUE, text |-> Stringify(l)] : l \in SavedLists}

Init ==
  /\ rootPc = "init"
  /\ registeredApps = <<>>
  /\ startCalls = 0
  /\ listeners = <<>>
  /\ appPc = "none"
  /\ queued = <<>>
  /\ applications = <<>>
  /\ formData = EmptyForm
  /\ editingIndex = NullIndex
  /\ formRef = NullIndex
  /\ localStorage \in InitialStorage
  /\ alerted = FALSE
  /\ lastOp = Op("none", NullIndex)
  /\ editTarget = NullIndex
  /\ inst = [k \in 1..MaxInstances |-> NoInstance]
  /\ nInst = 0
  /\ tracked \in {0, MaxInstances}
  /\ dom = <<>>
  /\ appState = InitialAppState
  /\ innerHTML = [e \in Elements |-> <<>>]
  /\ styles = FALSE
  /\ lastCall = NoCall

\* ------------------------------------------------------------------ root-config.ts

\* setupSingleSpaEventHandlers()
RootSetupHandlers ==
  /\ rootPc = "init"
  /\ rootPc' = "handlers"
  /\ listeners' = listeners \o InstalledListeners
  /\ UNCHANGED <<registeredApps, startCalls, uiVars, childVars>>

\* registerApplication({ name: 'main', ... })
RootRegister ==
  /\ rootPc = "handlers"
  /\ rootPc' = "registered"
  /\ registeredApps' = Append(registeredApps, MainName)
  /\ UNCHANGED <<startCalls, listeners, uiVars, childVars>>

\* A top level that calls start() before registerApplication.
RootStartBeforeRegister ==
  /\ rootPc = "handlers"
  /\ startCalls = 0
  /\ startCalls' = startCalls + 1
  /\ UNCHANGED <<rootPc, registeredApps, listeners, uiVars, childVars>>

\* start({ urlRerouteOnly: true })
RootStart ==
  /\ rootPc = "registered"
  /\ rootPc' = "started"
  /\ startCalls' = startCalls + 1
  /\ UNCHANGED <<registeredApps, listeners, uiVars, childVars>>

\* ------------------------------------------------------------------ App

\* single-spa mounts the main application: the first render (an empty list) and
\* its two effects, the load (which queues the saved list) and the save.
AppMount ==
  /\ rootPc = "started"
  /\ appPc = "none"
  /\ appPc' = IF localStorage.present THEN "mounted" ELSE "ready"
  /\ queued' = IF localStorage.present THEN Parse(localStorage.text) ELSE <<>>
  /\ SaveEffect(applications)
  /\ UNCHANGED <<rootPc, startCalls, listeners, applications, formData, editingIndex,
                 formRef, alerted, lastOp, editTarget, childVars>>

\* The render for the queued setApplications(JSON.parse(savedApps)).
AppApplySaved ==
  /\ appPc = "mounted"
  /\ appPc' = "ready"
  /\ applications' = queued
  /\ RenderApp(queued)
  /\ SaveEffect(queued)
  /\ queued' = <<>>
  /\ UNCHANGED <<rootPc, startCalls, listeners, formData, editingIndex, formRef, alerted,
                 lastOp, editTarget>>

\* A change handler that also writes the field into the entry being edited.
handleInputChangeWritingThrough(field, value) ==
  /\ appPc = "ready"
  /\ formData' = [formData EXCEPT ![field] = value]
  /\ formRef' = NullIndex
  /\ alerted' = FALSE
  /\ lastOp' = Op("input", NullIndex)
  /\ LET updated == IF editingIndex # NullIndex /\ editingIndex < Len(applications)
                    THEN ArraySet(applications, editingIndex, formData')
                    ELSE applications
     IN /\ applications' = updated
        /\ RenderApp(updated)
        /\ SaveEffect(updated)
  /\ UNCHANGED <<rootPc, startCalls, listeners, appPc, queued, editingIndex, editTarget>>

handleInputChange(field, value) ==
  /\ appPc = "ready"
  /\ formData' = [formData EXCEPT ![field] = value]
  /\ formRef' = NullIndex
  /\ RenderApp(applications)
  /\ alerted' = FALSE
  /\ lastOp' = Op("input", NullIndex)
  /\ UNCHANGED <<rootVars, appPc, queued, applications, editingIndex, localStorage,
                 editTarget>>

\* The render of a list that holds undefined throws at app.name: React unmounts the
\* tree, and the effects of that render never run.
RenderThrows(apps) == \E i \in 1..Len(apps) : apps[i] = Undefined

handleSubmit ==
  /\ appPc = "ready"
  /\ IF Trim(formData.name) = "" \/ Trim(formData.url) = ""
     THEN /\ alerted' = TRUE
          /\ lastOp' = Op("alert", NullIndex)
          /\ UNCHANGED <<rootVars, appPc, queued, applications, formData, editingIndex,
                         formRef, localStorage, editTarget, childVars>>
     ELSE LET updated == IF editingIndex # NullIndex
                         THEN UpdateEntry(applications, editingIndex, formData)
                         ELSE AddEntry(applications, formData)
          IN /\ Len(updated) <= MaxApps
             /\ applications' = updated
             /\ editingIndex' = NullIndex
             /\ formData' = EmptyForm
             /\ formRef' = NullIndex
             /\ editTarget' = NullIndex
             /\ alerted' = FALSE
             /\ lastOp' = Op(IF editingIndex # NullIndex THEN "update" ELSE "add",
                             editingIndex)
             /\ IF RenderThrows(updated)
                THEN /\ appPc' = "crashed"
                     /\ RenderApp(<<>>)
                     /\ UNCHANGED <<rootVars, queued, localStorage>>
                ELSE /\ RenderApp(updated)
                     /\ SaveEffect(updated)
                     /\ UNCHANGED <<rootPc, startCalls, listeners, appPc, queued>>

handleEdit(index) ==
  /\ appPc = "ready"
  /\ index + 1 \in Entries(applications)
  /\ formData' = applications[index + 1]
  /\ editingIndex' = index
  /\ formRef' = index
  /\ editTarget' = index
  /\ IF formRef = index /\ editingIndex = index
     THEN UNCHANGED childVars
     ELSE RenderApp(applications)
  /\ alerted' = FALSE
  /\ lastOp' = Op("edit", index)
  /\ UNCHANGED <<rootVars, appPc, queued, applications, localStorage>>

\* A delete that never leaves edit mode.
handleDeleteKeepingEdit(index) ==
  /\ appPc = "ready"
  /\ index + 1 \in Entries(applications)
  /\ LET updated == ArrayRemove(applications, index)
     IN /\ applications' = updated
        /\ RenderApp(updated)
        /\ SaveEffect(updated)
  /\ UNCHANGED <<editingIndex, formData>>
  /\ formRef' = IF formRef = NullIndex THEN NullIndex
                ELSE IndexAfterRemove(applications, index, formRef)
  /\ editTarget' = IF editTarget = NullIndex THEN NullIndex
                   ELSE IndexAfterRemove(applications, index, editTarget)
  /\ alerted' = FALSE
  /\ lastOp' = Op("delete", index)
  /\ UNCHANGED <<rootPc, startCalls, listeners, appPc, queued>>

handleDelete(index) ==
  /\ appPc = "ready"
  /\ index + 1 \in Entries(applications)
  /\ LET updated == ArrayRemove(applications, index)
     IN /\ applications' = updated
        /\ RenderApp(updated)
        /\ SaveEffect(updated)
  /\ IF editingIndex = index
     THEN /\ editingIndex' = NullIndex
          /\ formData' = EmptyForm
          /\ formRef' = NullIndex
          /\ editTarget' = NullIndex
     ELSE /\ UNCHANGED <<editingIndex, formData>>
          /\ formRef' = IF formRef = NullIndex THEN NullIndex
                        ELSE IndexAfterRemove(applications, index, formRef)
          /\ editTarget' = IF editTarget = NullIndex THEN NullIndex
                           ELSE IndexAfterRemove(applications, index, editTarget)
  /\ alerted' = FALSE
  /\ lastOp' = Op("delete", index)
  /\ UNCHANGED <<rootPc, startCalls, listeners, appPc, queued>>

handleCancel ==
  /\ appPc = "ready"
  /\ editingIndex # NullIndex
  /\ editingIndex' = NullIndex
  /\ formData' = EmptyForm
  /\ formRef' = NullIndex
  /\ editTarget' = NullIndex
  /\ RenderApp(applications)
  /\ alerted' = FALSE
  /\ lastOp' = Op("cancel", NullIndex)
  /\ UNCHANGED <<rootVars, appPc, queued, applications, localStorage>>

\* ------------------------------------------------------------------ loadChildApp

Step(k, r) ==
  /\ inst' = [inst EXCEPT ![k] = r]
  /\ UNCHANGED <<rootVars, uiVars, nInst, tracked, dom, pureVars>>

\* fetch(appUrl, { method: 'HEAD' }) settles: ok, a not-ok status, or a rejection.
HeadSettles(k, outcome) ==
  /\ inst[k].pc = "head"
  /\ Step(k, AfterHead(inst[k], outcome))

PreloadSettles(k, first) ==
  /\ inst[k].pc = "preload"
  /\ Step(k, AfterPreload(inst[k], first))

\* The module at PureUrl is pure-js/app.js, which exports the three functions.
ImportResolves(k, exports) ==
  /\ inst[k].pc = "import"
  /\ inst[k].appUrl = PureUrl => exports = Lifecycle
  /\ Step(k, AfterImport(inst[k], exports))

ImportRejects(k) ==
  /\ inst[k].pc = "import"
  /\ Step(k, AfterImportRejected(inst[k]))

\* appModule.bootstrap() settles and, when it resolved, appModule.mount(mountProps)
\* is called: the body of the pure-JS mount runs at the call.
BootstrapSettles(k, ok) ==
  /\ inst[k].pc = "bootstrap"
  /\ inst[k].appUrl = PureUrl => ok = bootstrap(Page, NoProps).ok
  /\ LET r == AfterBootstrap(inst[k], ok)
     IN /\ inst' = [inst EXCEPT ![k] = r]
        /\ IF r.pc = "mount" /\ r.appUrl = PureUrl
           THEN SetPage(mount(Page, r.mountProps).pm)
           ELSE UNCHANGED <<appState, innerHTML, styles>>
  /\ UNCHANGED <<rootVars, uiVars, nInst, tracked, dom, lastCall>>

MountSettles(k, ok) ==
  /\ inst[k].pc = "mount"
  /\ inst[k].appUrl = PureUrl => ok = mount(Page, inst[k].mountProps).ok
  /\ Step(k, AfterMount(inst[k], ok))

WaitElapses(k) ==
  /\ inst[k].pc = "wait"
  /\ Step(k, AfterWait(inst[k]))

\* A cleanup that removes the inner container in a then handler.
UnmountSettlesOnResolve(k, ok) ==
  /\ inst[k].unmountPc = "pending"
  /\ inst' = [inst EXCEPT ![k].unmountPc = "settled"]
  /\ dom' = IF ok THEN RemoveContainer(dom, k, inst[k].unmountProps.domElement) ELSE dom
  /\ UNCHANGED <<rootVars, uiVars, nInst, tracked, pureVars>>

\* module.unmount(...) of the cleanup settles: the rejection is logged, and the
\* finally handler removes the inner container from its parent.
UnmountSettles(k, ok) ==
  /\ inst[k].unmountPc = "pending"
  /\ inst[k].appUrl = PureUrl => ok = unmount(Page, inst[k].unmountProps).ok
  /\ inst' = [inst EXCEPT ![k].unmountPc = "settled"]
  /\ dom' = RemoveContainer(dom, k, inst[k].unmountProps.domElement)
  /\ UNCHANGED <<rootVars, uiVars, nInst, tracked, pureVars>>

Instances == 1..MaxInstances

Next ==
  \/ RootSetupHandlers
  \/ RootRegister
  \/ RootStart
  \/ AppMount
  \/ AppApplySaved
  \/ \E v \in FormNames : handleInputChange("name", v)
  \/ \E v \in FormUrls : handleInputChange("url", v)
  \/ handleSubmit
  \/ \E i \in 0..(MaxApps - 1) : handleEdit(i)
  \/ \E i \in 0..(MaxApps - 1) : handleDelete(i)
  \/ handleCancel
  \/ \E k \in Instances, o \in {"ok", "status", "rejected"} : HeadSettles(k, o)
  \/ \E k \in Instances, d \in CriticalDeps \cup OptionalDeps \cup {"none"} :
       PreloadSettles(k, d)
  \/ \E k \in Instances, e \in SUBSET Lifecycle : ImportResolves(k, e)
  \/ \E k \in Instances : ImportRejects(k)
  \/ \E k \in Instances, ok \in BOOLEAN : BootstrapSettles(k, ok)
  \/ \E k \in Instances, ok \in BOOLEAN : MountSettles(k, ok)
  \/ \E k \in Instances : WaitElapses(k)
  \/ \E k \in Instances, ok \in BOOLEAN : UnmountSettles(k, ok)

Spec == Init /\ [][Next]_vars

\* What loadChildApp of instance k awaits settles: the HEAD request, the pre-loads,
\* the import, bootstrap, mount or the 100 ms timer.
LoadSettles(k) ==
  \/ \E o \in {"ok", "status", "rejected"} : HeadSettles(k, o)
  \/ \E d \in CriticalDeps \cup OptionalDeps \cup {"none"} : PreloadSettles(k, d)
  \/ \E e \in SUBSET Lifecycle : ImportResolves(k, e)
  \/ ImportRejects(k)
  \/ \E ok \in BOOLEAN : BootstrapSettles(k, ok)
  \/ \E ok \in BOOLEAN : MountSettles(k, ok)
  \/ WaitElapses(k)

\* The page with any stored list, in a behaviour that follows the first
\* ChildAppRenderer mounted (or the registry form alone).
LoadInit ==
  /\ rootPc = "init"
  /\ registeredApps = <<>>
  /\ startCalls = 0
  /\ listeners = <<>>
  /\ appPc = "none"
  /\ queued = <<>>
  /\ applications = <<>>
  /\ formData = EmptyForm
  /\ editingIndex = NullIndex
  /\ formRef = NullIndex
  /\ localStorage \in InitialStorage
  /\ alerted = FALSE
  /\ lastOp = Op("none", NullIndex)
  /\ editTarget = NullIndex
  /\ inst = [k \in 1..MaxInstances |-> NoInstance]
  /\ nInst = 0
  /\ tracked \in {0, 1}
  /\ dom = <<>>
  /\ appState = InitialAppState
  /\ innerHTML = [e \in Elements |-> <<>>]
  /\ styles = FALSE
  /\ lastCall = NoCall

\* Every promise a load awaits settles in the end, and the timer fires.
FairSpec == LoadInit /\ [][Next]_vars /\ \A k \in Instances : WF_vars(LoadSettles(k))

\* ------------------------------------------------------------------ the registry
\* holding entries served by pure-js/app.js

PureLists ==
  {<<[name |-> "a", url |-> PureUrl]>>,
   <<[name |-> "a", url |-> PureUrl], [name |-> "b", url |-> PureUrl]>>}

PureHostInit ==
  /\ rootPc = "init"
  /\ registeredApps = <<>>
  /\ startCalls = 0
  /\ listeners = <<>>
  /\ appPc = "none"
  /\ queued = <<>>
  /\ applications = <<>>
  /\ formData = EmptyForm
  /\ editingIndex = NullIndex
  /\ formRef = NullIndex
  /\ localStorage \in {[present |-> TRUE, text |-> Stringify(l)] : l \in PureLists}
  /\ alerted = FALSE
  /\ lastOp = Op("none", NullIndex)
  /\ editTarget = NullIndex
  /\ inst = [k \in 1..MaxInstances |-> NoInstance]
  /\ nInst = 0
  /\ tracked \in {0, MaxInstances}
  /\ dom = <<>>
  /\ appState = InitialAppState
  /\ innerHTML = [e \in Elements |-> <<>>]
  /\ styles = FALSE
  /\ lastCall = NoCall

PureHostSpec == PureHostInit /\ [][Next]_vars

\* ------------------------------------------------------------------ a host that
\* calls the lifecycle functions of pure-js/app.js itself, in any order

\* What an element holds before the module renders into it.
HostContent == {<<>>, <<"host">>}

PureInit ==
  /\ rootPc = "init"
  /\ registeredApps = <<>>
  /\ startCalls = 0
  /\ listeners = <<>>
  /\ appPc = "none"
  /\ queued = <<>>
  /\ applications = <<>>
  /\ formData = EmptyForm
  /\ editingIndex = NullIndex
  /\ formRef = NullIndex
  /\ localStorage = [present |-> FALSE, text |-> <<>>]
  /\ alerted = FALSE
  /\ lastOp = Op("none", NullIndex)
  /\ editTarget = NullIndex
  /\ inst = [k \in 1..MaxInstances |-> NoInstance]
  /\ nInst = 0
  /\ tracked = 0
  /\ dom = <<>>
  /\ appState = InitialAppState
  /\ innerHTML \in [Elements -> HostContent]
  /\ styles = FALSE
  /\ lastCall = NoCall

\* A call: the function, props.domElement, how its promise settled, whether the app
\* was mounted at the call, and the call before it.
Call(fn, el, res) ==
  [fn |-> fn, domElement |-> el, ok |-> res.ok, msg |-> res.msg,
   again |-> (lastCall.fn = fn /\ lastCall.domElement = el),
   wasMounted |-> appState.mounted,
   prev |-> [fn |-> lastCall.fn, domElement |-> lastCall.domElement,
             wasMounted |-> lastCall.wasMounted]]

PropsFor(el) == [name |-> <<"pure-js-app">>, domElement |-> el]

DirectBootstrap ==
  /\ SetPage(bootstrap(Page, NoProps).pm)
  /\ lastCall' = Call("bootstrap", NullElement, bootstrap(Page, NoProps))
  /\ UNCHANGED <<rootVars, uiVars, inst, nInst, tracked, dom>>

DirectMount(el) ==
  /\ SetPage(mount(Page, PropsFor(el)).pm)
  /\ lastCall' = Call("mount", el, mount(Page, PropsFor(el)))
  /\ UNCHANGED <<rootVars, uiVars, inst, nInst, tracked, dom>>

DirectUnmount(el) ==
  /\ SetPage(unmount(Page, PropsFor(el)).pm)
  /\ lastCall' = Call("unmount", el, unmount(Page, PropsFor(el)))
  /\ UNCHANGED <<rootVars, uiVars, inst, nInst, tracked, dom>>

PureNext ==
  \/ DirectBootstrap
  \/ \E el \in Elements \cup {NullElement} : DirectMount(el)
  \/ \E el \in Elements \cup {NullElement} : DirectUnmount(el)

PureSpec == PureInit /\ [][PureNext]_vars


\* ------------------------------------------------------------------ claims

Created == {k \in Instances : inst[k].pc # "unused"}
TornDown == {k \in Created : ~inst[k].alive}
\* The load has returned and no unmount of the cleanup is pending.
Quiescent(k) == inst[k].pc = "done" /\ inst[k].unmountPc # "pending"

\* C1: per instance, mount is invoked only after that instance's bootstrap call
\* resolved, and bootstrap only after the module import resolved.
C1_LifecycleInOrder ==
  \A k \in Created :
    /\ inst[k].nMount > 0 => inst[k].bootstrapOk /\ inst[k].nBootstrap > 0
    /\ inst[k].nBootstrap > 0 => inst[k].importOk

C1_Witness ==
  \E k \in Created : inst[k].nMount = 1 /\ inst[k].mountOk /\ inst[k].pc = "done"

\* C2: the module's unmount is invoked only for an instance whose mount had
\* completed successfully when it was torn down (never before mount, while bootstrap
\* or mount is in flight, or after bootstrap or mount failed).
C2_UnmountOnlyAfterMount ==
  \A k \in Created : inst[k].nUnmount > 0 => inst[k].tornMountOk

\* C3: an instance torn down while its load was in flight has no mounted fragment
\* once the load has returned and the unmount (if any) has settled.
C3_NoFragmentAfterRacingTeardown ==
  \A k \in TornDown : inst[k].tornInFlight /\ Quiescent(k) => ~inst[k].mounted

\* C4: an instance torn down after its mount completed has had unmount invoked once,
\* with the name and the domElement mount was given, and its appInstanceRef is null.
C4_UnmountMirrorsMount ==
  \A k \in TornDown :
    inst[k].tornMountOk =>
      /\ inst[k].nUnmount = 1
      /\ inst[k].unmountProps.name = inst[k].mountProps.name
      /\ inst[k].unmountProps.domElement = inst[k].mountProps.domElement
      /\ inst[k].unmountProps.domElement # NullElement
      /\ ~inst[k].appInstanceRef.set

C4_Witness ==
  \E k \in TornDown : inst[k].tornMountOk /\ inst[k].unmountPc = "settled"

\* C5: every instance invokes mount at most once, and no two instances of the same
\* registry entry (same position, name and url) hold a mounted fragment at once.
C5_OneMountPerFragment ==
  /\ \A k \in Created : inst[k].nMount <= 1
  /\ \A j, k \in Created :
       j # k /\ inst[j].index = inst[k].index /\ inst[j].appName = inst[k].appName
             /\ inst[j].appUrl = inst[k].appUrl
       => ~(inst[j].mounted /\ inst[k].mounted)

\* C6: the wrapper of every instance holds at most one inner container, also after a
\* failed load and after teardown.
C6_OneContainerPerWrapper ==
  \A k \in Created : Cardinality(InnerContainers(dom, inst[k].wrapper)) <= 1

C6_Witness ==
  /\ \E k \in TornDown :
       /\ inst[k].pc = "done" /\ inst[k].error # NoError
       /\ Cardinality(InnerContainers(dom, inst[k].wrapper)) = 1
  /\ \E k \in TornDown :
       /\ inst[k].unmountPc = "settled"
       /\ InnerContainers(dom, inst[k].wrapper) = {}

\* C7: the module's unmount is invoked at most once per instance, however the
\* teardown interleaves with the load.
C7_UnmountAtMostOnce == \A k \in Created : inst[k].nUnmount <= 1

C7_Witness ==
  \E k \in TornDown :
    inst[k].tornInFlight /\ inst[k].nUnmount = 1 /\ inst[k].pc = "done" /\ inst[k].error # NoError

\* C8: the domElement given to mount is a container the instance created as a child
\* of its own wrapper, no two instances give mount the same domElement, and a
\* container is appended and removed only by the instance that created it.
C8_OwnContainer ==
  /\ \A k \in Created :
       inst[k].nMount > 0 =>
         /\ inst[k].mountProps.domElement \in 1..Len(dom)
         /\ dom[inst[k].mountProps.domElement].creator = k
         /\ dom[inst[k].mountProps.domElement].wrapper = inst[k].wrapper
  /\ \A j, k \in Created :
       j # k /\ inst[j].nMount > 0 /\ inst[k].nMount > 0
       => inst[j].mountProps.domElement # inst[k].mountProps.domElement
  /\ \A e \in 1..Len(dom) : dom[e].touched = {dom[e].creator}

C8_Witness ==
  /\ \A k \in Instances : inst[k].nMount = 1
  /\ \E e \in 1..Len(dom) : dom[e].parent = NullElement

\* C9: a module lacking bootstrap, mount or unmount has none of its lifecycle
\* functions invoked, nothing is stored in appInstanceRef, and the instance ends with
\* loading = false and an error listing exactly the missing exports.
C9_MissingExports ==
  \A k \in Created :
    inst[k].importOk /\ ~(Lifecycle \subseteq inst[k].exports) =>
      /\ inst[k].nBootstrap = 0 /\ inst[k].nMount = 0 /\ inst[k].nUnmount = 0
      /\ ~inst[k].appInstanceRef.set
      /\ inst[k].pc = "done" /\ ~inst[k].loading
      /\ inst[k].error.prefix = FailedToLoad
      /\ inst[k].error.msg = "Application does not export required functions: "
      /\ {inst[k].error.args[i] : i \in 1..Len(inst[k].error.args)} = Lifecycle \ inst[k].exports
      /\ Len(inst[k].error.args) = Cardinality(Lifecycle \ inst[k].exports)

C9_Witness ==
  \E k \in TornDown :
    inst[k].importOk /\ inst[k].exports = {"mount"} /\ ~inst[k].tornInFlight

Range(f) == {f[i] : i \in DOMAIN f}

NonBlank == Trim(formData.name) # "" /\ Trim(formData.url) # ""

\* C11: once an application has been added through the form, registerApplication has
\* been called for it: some registration other than 'main' carries its name.
C11_RegisteredWhenAdded ==
  appPc = "ready" =>
    \A i \in Entries(applications) :
      \E r \in Range(registeredApps) : Len(r) = 3 /\ r[2] = applications[i].name

\* C12: the lifecycle event listeners are in place before anything is registered,
\* start is called only once 'main' is registered, and it is called exactly once.
C12_StartupOrder ==
  /\ registeredApps # <<>> =>
       \A i \in 1..Len(EventTypes) :
         \E l \in Range(listeners) : l.type = EventTypes[i] /\ l.logs
  /\ startCalls > 0 => MainName \in Range(registeredApps)
  /\ startCalls <= 1
  /\ rootPc = "started" => startCalls = 1

C12_Witness ==
  /\ rootPc = "started"
  /\ startCalls = 1
  /\ registeredApps = <<MainName>>
  /\ Len(listeners) = Len(EventTypes) + 1

\* C13: while the main application runs, the stored item is the JSON of the current
\* list, and parsing it (what a reload does) gives back that list, entry for entry.
C13_PersistenceRoundTrip ==
  appPc = "ready" =>
    /\ localStorage.present
    /\ localStorage.text = Stringify(applications)
    /\ Parse(localStorage.text) = applications

\* C14: a submit of a non-blank form outside edit mode makes the list one longer,
\* leaves every previous entry where it was, puts the form's entry last and clears
\* the form.
C14_AddAppendsOne ==
  [][(handleSubmit /\ editingIndex = NullIndex /\ NonBlank) =>
       /\ Len(applications') = Len(applications) + 1
       /\ \A i \in Entries(applications) : applications'[i] = applications[i]
       /\ applications'[Len(applications')] = formData
       /\ formData' = EmptyForm]_vars

C14_Witness ==
  /\ lastOp.op = "add"
  /\ Len(applications) = MaxApps
  /\ applications[1] # applications[MaxApps]
  /\ formData = EmptyForm

\* C15: a submit in edit mode replaces the entry handleEdit loaded, wherever that
\* entry now is: same length, that entry becomes the form's, every other entry is
\* untouched, and edit mode ends with the form cleared.
C15_UpdateReplacesEdited ==
  [][(handleSubmit /\ editingIndex # NullIndex /\ NonBlank) =>
       /\ editTarget # NullIndex
       /\ Len(applications') = Len(applications)
       /\ applications'[editTarget + 1] = formData
       /\ \A i \in 1..Len(applications) :
            i # editTarget + 1 => applications'[i] = applications[i]
       /\ editingIndex' = NullIndex
       /\ formData' = EmptyForm]_vars

\* C16: handleDelete(index) makes the list one shorter and keeps every other entry,
\* in order.
C16_DeleteRemovesOne ==
  [][\A index \in 0..(MaxApps - 1) :
       handleDelete(index) =>
         /\ Len(applications') = Len(applications) - 1
         /\ \A i \in 1..Len(applications') :
              applications'[i] = applications[IF i < index + 1 THEN i ELSE i + 1]]_vars

\* C20: a change of the form's fields calls no lifecycle function of any child
\* module and starts no load: no instance is created or torn down by it.
C20_TypingLeavesFragments ==
  [][(\E field \in {"name", "url"}, v \in FormNames \cup FormUrls :
        handleInputChange(field, v)) =>
       /\ nInst' = nInst
       /\ \A k \in Instances :
            /\ inst'[k].alive = inst[k].alive
            /\ inst'[k].nUnmount = inst[k].nUnmount
            /\ inst'[k].nBootstrap = inst[k].nBootstrap
            /\ inst'[k].nMount = inst[k].nMount]_vars

\* C17: whenever mount(props) of the pure-JS module has resolved, props.domElement
\* holds the app's root element, whatever calls came before.
C17_MountRendersIntoDomElement ==
  (lastCall.fn = "mount" /\ lastCall.ok) =>
    AppRoot \in Range(innerHTML[lastCall.domElement])

\* C18: a second unmount(props) right after a first one with the same props resolves
\* and changes neither appState nor any element; when the props name an element,
\* appState is then mounted = false, container = null, no listeners.
C18_UnmountTwice ==
  [][\A el \in Elements \cup {NullElement} :
       (DirectUnmount(el) /\ lastCall.fn = "unmount" /\ lastCall.domElement = el) =>
         /\ lastCall'.ok
         /\ appState' = appState
         /\ innerHTML' = innerHTML
         /\ el # NullElement => appState' = InitialAppState]_vars

C18_Witness ==
  /\ lastCall.fn = "unmount"
  /\ lastCall.again
  /\ lastCall.ok
  /\ lastCall.domElement # NullElement
  /\ styles
  /\ innerHTML[lastCall.domElement] = <<>>

\* The fragments of the entries served by the pure-JS module whose load ended
\* without an error all show the app, each in a container of its own.
ShownApart(insts, html) ==
  LET ended == {k \in Instances : /\ insts[k].alive
                                  /\ insts[k].appUrl = PureUrl
                                  /\ insts[k].pc = "done"
                                  /\ insts[k].error = NoError}
  IN /\ \A k \in ended : html[insts[k].containerElement] = <<AppRoot>>
     /\ \A k, j \in ended : k # j => insts[k].containerElement # insts[j].containerElement

\* C19: entries that point at the pure-JS module each end with their own container
\* showing the app, and the removal of one entry leaves the mounted fragments of the
\* other entries mounted, with the content of their containers as it was.
C19_FragmentsIsolated ==
  [][/\ ShownApart(inst', innerHTML')
     /\ \A index \in 0..(MaxApps - 1) :
          handleDelete(index) =>
            \A k \in Instances :
              (inst[k].alive /\ inst[k].appUrl = PureUrl /\ inst[k].mounted
                 /\ inst[k].index # index) =>
                /\ inst'[k].alive
                /\ inst'[k].nUnmount = inst[k].nUnmount
                /\ innerHTML'[inst[k].containerElement]
                     = innerHTML[inst[k].containerElement]]_vars

\* C21: editingIndex is null or an index of the list, and then the entry the form
\* edits (the one handleEdit loaded) is the entry now at that index.
C21_EditingIndexValid ==
  (appPc = "ready" /\ editingIndex # NullIndex) =>
    /\ 0 <= editingIndex
    /\ editingIndex < Len(applications)
    /\ editTarget = editingIndex

Blank(s) == s \in {"", " "}

\* C22: a submit with a blank name or a blank url raises the alert and leaves the
\* list, editingIndex, the form and the stored list as they were.
C22_BlankSubmitChangesNothing ==
  [][(handleSubmit /\ (Blank(formData.name) \/ Blank(formData.url))) =>
       /\ alerted'
       /\ UNCHANGED <<applications, editingIndex, formData, localStorage>>]_vars

C22_Witness ==
  /\ lastOp.op = "alert"
  /\ alerted
  /\ formData.name = " "
  /\ formData.url # ""
  /\ editingIndex # NullIndex
  /\ applications # <<>>

\* C30: while the saved list read at start-up waits to be applied, the stored item
\* still is that list.
C30_SavedListKept ==
  (appPc = "mounted" /\ queued # <<>>) => localStorage.text = Stringify(queued)

ErrorIs(r, msg) == r.error.prefix = FailedToLoad /\ r.error.msg = msg

\* An instance whose load ended at a rejected bootstrap never had mount called; one
\* whose load ended at a rejected bootstrap or mount is not loading.
StoppedAtFailure(insts) ==
  \A k \in Instances :
    /\ ErrorIs(insts[k], "Bootstrap failed: ") =>
         /\ insts[k].nMount = 0
         /\ ~insts[k].mounted
         /\ ~insts[k].loading
    /\ ErrorIs(insts[k], "Mount failed: ") =>
         /\ ~insts[k].mountOk
         /\ ~insts[k].loading

\* C23: a rejected bootstrap ends the load with 'Failed to load application:
\* Bootstrap failed: ...' and mount is never called; a rejected mount ends it with
\* '... Mount failed: ...'; both leave loading = false.
C23_FailureStopsLifecycle ==
  [][/\ StoppedAtFailure(inst')
     /\ \A k \in Instances :
          /\ BootstrapSettles(k, FALSE) =>
               /\ ErrorIs(inst'[k], "Bootstrap failed: ")
               /\ inst'[k].nMount = inst[k].nMount
               /\ inst'[k].pc = "done"
          /\ MountSettles(k, FALSE) =>
               /\ ErrorIs(inst'[k], "Mount failed: ")
               /\ inst'[k].pc = "done"]_vars

C23_Witness ==
  \E k, j \in Instances :
    /\ ErrorIs(inst[k], "Bootstrap failed: ")
    /\ inst[k].nBootstrap = 1
    /\ ErrorIs(inst[j], "Mount failed: ")
    /\ inst[j].nMount = 1

\* C24: a HEAD response that is not ok, with a non-zero status, ends the load with
\* the 'File not found' error: no pre-load, no import.
C24_HeadFailureAborts ==
  [][\A k \in Instances :
       HeadSettles(k, "status") =>
         /\ inst'[k].pc = "done"
         /\ ~inst'[k].loading
         /\ ErrorIs(inst'[k], "File not found")]_vars

\* An instance whose load ended at the pre-load never imported the child module and
\* had no lifecycle function called.
NothingAfterPreloadFailure(insts) ==
  \A k \in Instances :
    ErrorIs(insts[k], "Required dependencies not available: ") =>
      /\ ~insts[k].importOk
      /\ insts[k].nBootstrap = 0 /\ insts[k].nMount = 0 /\ insts[k].nUnmount = 0
      /\ ~insts[k].loading

\* C25: a rejected pre-load of react, react-dom or single-spa ends the load with
\* 'Failed to load application: Required dependencies not available: ...', without
\* the import and without any lifecycle call; a rejected pre-load of single-spa-react
\* alone lets the load go on to the import.
C25_PreloadFailure ==
  [][/\ NothingAfterPreloadFailure(inst')
     /\ \A k \in Instances :
          /\ \A d \in {"react", "react-dom", "single-spa"} :
               PreloadSettles(k, d) =>
                 /\ inst'[k].error
                      = [Err(FailedToLoad, "Required dependencies not available: ", <<d>>)
                           EXCEPT !.avail = inst'[k].error.avail]
                 /\ inst'[k].pc = "done"
          /\ PreloadSettles(k, "single-spa-react") =>
               /\ inst'[k].pc = "import"
               /\ inst'[k].error = NoError]_vars

C25_Witness ==
  \E k, j \in Instances :
    /\ ErrorIs(inst[k], "Required dependencies not available: ")
    /\ inst[k].error.args = <<"single-spa">>
    /\ inst[k].tornInFlight
    /\ inst[j].importOk

\* C27: an instance that is not loading and has no error has a module with the three
\* functions and a resolved bootstrap and mount; an instance whose load ended
\* otherwise has an error.
C27_SuccessOnlyAfterMount ==
  \A k \in Created :
    /\ (~inst[k].loading /\ inst[k].error = NoError) =>
         /\ Lifecycle \subseteq inst[k].exports
         /\ inst[k].bootstrapOk
         /\ inst[k].mountOk
    /\ (inst[k].pc = "done" /\ ~(inst[k].bootstrapOk /\ inst[k].mountOk)) =>
         inst[k].error # NoError

C27_Witness ==
  \E k, j \in Created :
    /\ ~inst[k].loading /\ inst[k].error = NoError /\ inst[k].mountOk
    /\ inst[j].pc = "done" /\ inst[j].nMount = 1 /\ ~inst[j].mountOk

\* C28: while the unmount promise of a cleanup is pending, the inner container is
\* still in its parent; when it settles, resolved or rejected, the container is
\* removed, and the rejection reaches neither the instance's error nor App.
C28_ContainerRemovedAfterUnmount ==
  [][/\ \A k \in Instances :
          inst'[k].unmountPc = "pending" =>
            dom'[inst'[k].unmountProps.domElement].parent # NullElement
     /\ \A k \in Instances, ok \in BOOLEAN :
          UnmountSettles(k, ok) =>
            /\ dom'[inst[k].unmountProps.domElement].parent = NullElement
            /\ inst'[k].error = inst[k].error
            /\ appPc' = appPc]_vars

C28_Witness ==
  \E k \in Instances :
    /\ inst[k].unmountPc = "settled"
    /\ inst[k].tornMountOk
    /\ dom[inst[k].unmountProps.domElement].parent = NullElement

C26_LoadEnds ==
  \A k \in Instances : (inst[k].pc # "unused") ~> ~inst[k].loading

C26_Witness ==
  \E k \in Created :
    /\ ~inst[k].loading
    /\ inst[k].pc = "done"
    /\ inst[k].tornInFlight
    /\ inst[k].mountOk

\* C31: handleInputChange changes one field of the form and handleEdit loads an
\* entry into the form, both leaving the list and the stored item alone;
\* handleCancel ends edit mode with an empty form and the list as it was.
C31_FormOnly ==
  [][/\ \A field \in {"name", "url"}, v \in FormNames \cup FormUrls :
          handleInputChange(field, v) =>
            /\ UNCHANGED <<applications, localStorage, editingIndex>>
            /\ formData' = [formData EXCEPT ![field] = v]
     /\ \A index \in 0..(MaxApps - 1) :
          handleEdit(index) =>
            /\ UNCHANGED <<applications, localStorage>>
            /\ formData' = applications[index + 1]
            /\ editingIndex' = index
     /\ handleCancel =>
          /\ UNCHANGED <<applications, localStorage>>
          /\ editingIndex' = NullIndex
          /\ formData' = EmptyForm]_vars

C31_Witness ==
  /\ lastOp.op = "input"
  /\ editingIndex # NullIndex
  /\ editingIndex < Len(applications)
  /\ editTarget = editingIndex
  /\ formData # applications[editingIndex + 1]
  /\ localStorage.text = Stringify(applications)

\* C32: handleDelete(index) with editingIndex = index ends edit mode with an empty
\* form, and out of edit mode a submit adds an entry.
C32_DeleteEditedEndsEdit ==
  [][/\ \A index \in 0..(MaxApps - 1) :
          (handleDelete(index) /\ editingIndex = index) =>
            /\ editingIndex' = NullIndex
            /\ formData' = EmptyForm
     /\ (handleSubmit /\ editingIndex = NullIndex /\ ~Blank(formData.name)
           /\ ~Blank(formData.url)) =>
          /\ lastOp'.op = "add"
          /\ Len(applications') = Len(applications) + 1]_vars

C32_Witness ==
  /\ lastOp.op = "delete"
  /\ lastOp.editing = lastOp.index
  /\ editingIndex = NullIndex
  /\ formData = EmptyForm
  /\ editTarget = NullIndex
  /\ formRef = NullIndex
  /\ applications # <<>>
  /\ tracked = 0
  /\ localStorage.text = Stringify(applications)
  /\ Len(applications) = MaxApps - 1

\* C36: one logging listener is installed per monitored event type.
C36_OneListenerPerType ==
  listeners # <<>> =>
    \A t \in Range(EventTypes) :
      Cardinality({i \in 1..Len(listeners) : listeners[i].type = t /\ listeners[i].logs})
        = 1

\* C33: mount without an element rejects with 'No DOM element provided' and unmount
\* without one resolves; neither changes appState or any element.
C33_NoElementNoChange ==
  [][/\ DirectMount(NullElement) =>
          /\ ~lastCall'.ok
          /\ lastCall'.msg = "No DOM element provided"
          /\ UNCHANGED <<appState, innerHTML, styles>>
     /\ DirectUnmount(NullElement) =>
          /\ lastCall'.ok
          /\ UNCHANGED <<appState, innerHTML, styles>>]_vars

C33_Witness ==
  /\ lastCall.fn = "mount"
  /\ lastCall.domElement = NullElement
  /\ ~lastCall.ok
  /\ lastCall.prev.fn = "unmount"
  /\ lastCall.prev.domElement = NullElement
  /\ appState.mounted

\* C34: an unmount right after a mount from the unmounted state, with the same
\* element, leaves appState at its initial value and the element empty, and a mount
\* into the element then renders the app again.
C34_MountUnmountRoundTrip ==
  [][\A el \in Elements :
       (/\ DirectUnmount(el)
        /\ lastCall.fn = "mount"
        /\ lastCall.domElement = el
        /\ ~lastCall.wasMounted) =>
         /\ appState' = InitialAppState
         /\ innerHTML'[el] = <<>>
         /\ LET again == mount([appState |-> appState', innerHTML |-> innerHTML',
                                styles |-> styles'], PropsFor(el))
            IN /\ again.ok
               /\ again.pm.innerHTML[el] = <<AppRoot>>
               /\ again.pm.appState.container = el]_vars

C34_Witness ==
  /\ lastCall.fn = "unmount"
  /\ lastCall.domElement # NullElement
  /\ lastCall.prev = [fn |-> "mount", domElement |-> lastCall.domElement,
                      wasMounted |-> FALSE]
  /\ appState = InitialAppState
  /\ innerHTML[lastCall.domElement] = <<>>
  /\ styles

\* C35: appState.mounted is true exactly when appState.container is set, and a call
\* that makes mounted false leaves the container the app was rendered into empty.
C35_MountedMatchesContainer ==
  [][/\ appState'.mounted <=> appState'.container # NullElement
     /\ (appState.mounted /\ ~appState'.mounted) =>
          innerHTML'[appState.container] = <<>>]_vars

====
